---- MODULE Spec2Model ----
(***************************************************************************)
(* A model of the Voltran access-request scripts: the PIN validators, the  *)
(* PIN sheet resolver and the handlers that append to the access log.      *)
(* Every script is a web app with its own doPost; the variable `script`    *)
(* records which one is deployed.  A spreadsheet is a sequence of sheets,  *)
(* a sheet a name and a sequence of rows, a row a sequence of cells.       *)
(* Text is a sequence of one-character strings, so that trim, case         *)
(* folding, substring search and the PIN shapes are computed as the code   *)
(* computes them.                                                          *)
(***************************************************************************)
EXTENDS Integers, Sequences, FiniteSets, TLC

\* ------------------------------------------------------------ bounds
\* POST requests handled in one behaviour.
MaxPosts == 2
\* Rows of column A of a PIN sheet in the initial state.
MaxPinRows == 2

\* ------------------------------------------------------------ text
LowerLetters == <<"a","b","c","d","e","f","g","h","i","j","k","l","m","n","o","p","q","r","s","t","u","v","w","x","y","z">>
UpperLetters == <<"A","B","C","D","E","F","G","H","I","J","K","L","M","N","O","P","Q","R","S","T","U","V","W","X","Y","Z">>
Digits == <<"0","1","2","3","4","5","6","7","8","9">>

Range(f) == {f[i] : i \in DOMAIN f}
IsDigit(c) == c \in Range(Digits)
IsUpper(c) == c \in Range(UpperLetters)
IsLower(c) == c \in Range(LowerLetters)
IsAlnum(c) == IsDigit(c) \/ IsUpper(c) \/ IsLower(c)
IsSpace(c) == c = " "

LowerChar(c) ==
  IF IsUpper(c) THEN LowerLetters[CHOOSE i \in 1..26 : UpperLetters[i] = c] ELSE c
UpperChar(c) ==
  IF IsLower(c) THEN UpperLetters[CHOOSE i \in 1..26 : LowerLetters[i] = c] ELSE c

\* String.prototype.toLowerCase / toUpperCase / trim / includes on text.
toLowerCase(s) == [i \in 1..Len(s) |-> LowerChar(s[i])]
toUpperCase(s) == [i \in 1..Len(s) |-> UpperChar(s[i])]

RECURSIVE trimStart(_)
trimStart(s) == IF s # <<>> /\ IsSpace(Head(s)) THEN trimStart(Tail(s)) ELSE s
RECURSIVE trimEnd(_)
trimEnd(s) ==
  IF s # <<>> /\ IsSpace(s[Len(s)]) THEN trimEnd(SubSeq(s, 1, Len(s) - 1)) ELSE s
trim(s) == trimEnd(trimStart(s))

includes(s, sub) ==
  \E i \in 0..(Len(s) - Len(sub)) : SubSeq(s, i + 1, i + Len(sub)) = sub

Min(a, b) == IF a < b THEN a ELSE b
Max(a, b) == IF a < b THEN b ELSE a

\* ------------------------------------------------------------ values
(* A cell or a JSON field.  k = "str": the text s.  The other kinds are    *)
(* strings that denote the instant n (milliseconds): "iso" an ISO-8601     *)
(* string, "readable" the pattern "EEEE, MMM dd, yyyy hh:mm a", "la" the   *)
(* pattern "MM/dd/yyyy h:mm:ss a".                                         *)
Str(s) == [s |-> s, k |-> "str", n |-> 0]
Iso(n) == [s |-> <<>>, k |-> "iso", n |-> n]
Empty == Str(<<>>)

\* JavaScript truthiness of a string, and a || b.
Truthy(v) == ~(v.k = "str" /\ v.s = <<>>)
OrElse(v, d) == IF Truthy(v) THEN v ELSE d

\* v.toString().trim(), .toLowerCase(), .toUpperCase() of a value.
trimV(v) == IF v.k = "str" THEN Str(trim(v.s)) ELSE v
lowerV(v) == IF v.k = "str" THEN Str(toLowerCase(v.s)) ELSE v
upperV(v) == IF v.k = "str" THEN Str(toUpperCase(v.s)) ELSE v
\* The characters of a value; a date string holds none of the letters the
\* scripts search for, and is written as one character outside every class.
textOf(v) == IF v.k = "str" THEN v.s ELSE <<"#">>

\* ------------------------------------------------------------ sheets
RowHasContent(row) == \E c \in 1..Len(row) : Truthy(row[c])
\* Sheet.getLastRow / getLastColumn: the last row, column with content.
getLastRow(sheet) ==
  LET S == {r \in 1..Len(sheet.rows) : RowHasContent(sheet.rows[r])}
  IN IF S = {} THEN 0 ELSE CHOOSE r \in S : \A q \in S : q <= r
getLastColumn(sheet) ==
  LET S == {c \in UNION {1..Len(sheet.rows[r]) : r \in 1..Len(sheet.rows)} :
              \E r \in 1..Len(sheet.rows) :
                 c <= Len(sheet.rows[r]) /\ Truthy(sheet.rows[r][c])}
  IN IF S = {} THEN 0 ELSE CHOOSE c \in S : \A q \in S : q <= c
\* getRange(r, c).getValue(): an empty string outside the written cells.
Cell(sheet, r, c) ==
  IF r <= Len(sheet.rows) /\ c <= Len(sheet.rows[r]) THEN sheet.rows[r][c] ELSE Empty
\* getRange(r0, c, n, 1).getValues() (getDisplayValues of text cells).
ColumnValues(sheet, r0, c, n) == [i \in 1..n |-> Cell(sheet, r0 + i - 1, c)]
\* getRange(r, 1, 1, n).getValues()[0]
RowValues(sheet, r, n) == [c \in 1..n |-> Cell(sheet, r, c)]
\* A lookup that falls back to the first sheet when the name is not found.
getSheetByName_orFirst(book, name) ==
  LET S == {i \in 1..Len(book) : book[i].name = name}
  IN IF S = {} THEN Min(1, Len(book)) ELSE CHOOSE i \in S : \A j \in S : i <= j
\* Spreadsheet.getSheetByName: the index of the sheet, 0 for null.
getSheetByName(book, name) ==
  LET S == {i \in 1..Len(book) : book[i].name = name}
  IN IF S = {} THEN 0 ELSE CHOOSE i \in S : \A j \in S : i <= j
\* Array.prototype.join('|') of a row's values.
RECURSIVE JoinBar(_)
JoinBar(vals) ==
  IF vals = <<>> THEN <<>>
  ELSE IF Len(vals) = 1 THEN textOf(vals[1])
  ELSE textOf(vals[1]) \o <<"|">> \o JoinBar(Tail(vals))
\* The least index of a sequence satisfying a test given as a set, 0 if none.
FirstOf(S) == IF S = {} THEN 0 ELSE CHOOSE i \in S : \A j \in S : i <= j

\* ------------------------------------------------------------ PIN list script
possibleNames_PL == <<
  <<"P","I","N","s">>, <<"P","I","N">>, <<"P","i","n","s">>, <<"P","i","n">>, <<"S","h","e","e","t","1">>, <<"p","i","n","s">>, <<"p","i","n">>,
  <<"P","a","s","s","w","o","r","d">>, <<"P","a","s","s","w","o","r","d","s">>, <<"p","a","s","s","w","o","r","d">>, <<"p","a","s","s","w","o","r","d","s">>, <<"A","c","c","e","s","s"," ","C","o","d","e","s">>,
  <<"A","c","c","e","s","s","C","o","d","e","s">>, <<"a","c","c","e","s","s","_","c","o","d","e","s">>, <<"a","c","c","e","s","s"," ","c","o","d","e","s">>, <<"C","o","d","e","s">>, <<"c","o","d","e","s">>,
  <<"A","u","t","h">>, <<"a","u","t","h">>, <<"A","u","t","h","e","n","t","i","c","a","t","i","o","n">>, <<"K","e","y">>, <<"K","e","y","s">>, <<"k","e","y","s">> >>

PREFERRED_PIN_SHEET_NAME == <<"P","I","N","s">>

\* The four PIN shapes tested on a trimmed column A value.
PinShape(s) ==
  \/ Len(s) \in 3..8 /\ \A i \in 1..Len(s) : IsDigit(s[i])
  \/ Len(s) \in 4..12 /\ \A i \in 1..Len(s) : IsAlnum(s[i])
  \/ Len(s) = 9 /\ s[5] = "-" /\ \A i \in (1..9) \ {5} : IsDigit(s[i])
  \/ \E a \in 2..4 : /\ Len(s) - a \in 2..6
                     /\ \A i \in 1..a : IsUpper(s[i])
                     /\ \A i \in (a + 1)..Len(s) : IsDigit(s[i])

HeaderWords_PL == << <<"p","i","n">>, <<"p","a","s","s","w","o","r","d">>, <<"c","o","d","e">>, <<"a","u","t","h">>, <<"k","e","y">>, <<"a","c","c","e","s","s">> >>

isPinSheet_PL(sheet) ==
  LET lastRow == getLastRow(sheet)
      lastCol == getLastColumn(sheet)
      headerHit(row) ==
        /\ lastCol >= 1
        /\ LET headerText == toLowerCase(JoinBar(RowValues(sheet, row, Min(lastCol, 3))))
           IN \E w \in Range(HeaderWords_PL) : includes(headerText, w)
      dataHit(startAttempt) ==
        LET n == Min(Min(10, lastRow), lastRow - startAttempt + 1)
            data == ColumnValues(sheet, startAttempt, 1, n)
            valid == {i \in 1..n : Truthy(data[i]) /\ Len(trim(textOf(data[i]))) > 0}
            pinLike == {i \in valid : data[i].k = "str" /\ PinShape(trim(data[i].s))}
        IN Cardinality(valid) > 0 /\ 10 * Cardinality(pinLike) >= 6 * Cardinality(valid)
  IN /\ lastRow >= 1
     /\ \/ \E row \in 1..Min(3, lastRow) : headerHit(row)
        \/ \E startAttempt \in 1..Min(2, lastRow) : dataHit(startAttempt)

\* A search that takes a sheet on its name alone.
findPinSheet_PL_byName(book) ==
  LET exact == {i \in 1..Len(possibleNames_PL) : getSheetByName(book, possibleNames_PL[i]) # 0}
      folded == {i \in 1..Len(book) :
                   \E j \in 1..Len(possibleNames_PL) :
                     toLowerCase(book[i].name) = toLowerCase(possibleNames_PL[j])}
      content == {i \in 1..Len(book) : isPinSheet_PL(book[i])}
  IN IF exact # {} THEN getSheetByName(book, possibleNames_PL[FirstOf(exact)])
     ELSE IF folded # {} THEN FirstOf(folded)
     ELSE FirstOf(content)
\* findPinSheet of the PIN list script: the index of the sheet found, 0 for null.
findPinSheet_PL(book) ==
  LET exact == {i \in 1..Len(possibleNames_PL) :
                  LET j == getSheetByName(book, possibleNames_PL[i])
                  IN j # 0 /\ isPinSheet_PL(book[j])}
      folded == {i \in 1..Len(book) :
                   /\ \E j \in 1..Len(possibleNames_PL) :
                        toLowerCase(book[i].name) = toLowerCase(possibleNames_PL[j])
                   /\ isPinSheet_PL(book[i])}
      content == {i \in 1..Len(book) : isPinSheet_PL(book[i])}
  IN IF exact # {} THEN getSheetByName(book, possibleNames_PL[FirstOf(exact)])
     ELSE IF folded # {} THEN FirstOf(folded)
     ELSE FirstOf(content)

\* The sheet getOrCreatePinSheet sets up when none is found.
ExamplePinSheet ==
  [rows |-> << <<Str(<<"P","I","N">>)>>, <<Str(<<"1","2","3","4","5","6">>)>>, <<Str(<<"7","8","9","0","1","2">>)>>,
               <<Str(<<"0","0","0","0","0","0">>)>> >>,
   name |-> PREFERRED_PIN_SHEET_NAME]

\* A set-up that writes the example PINs over the first sheet when none is found.
getOrCreatePinSheet_overwrite(book) ==
  LET found == findPinSheet_PL(book)
  IN IF found # 0 THEN [book |-> book, idx |-> found]
     ELSE IF book = <<>> THEN [book |-> <<ExamplePinSheet>>, idx |-> 1]
     ELSE [book |-> [book EXCEPT ![1] = ExamplePinSheet], idx |-> 1]
\* getOrCreatePinSheet: the spreadsheet afterwards and the index of the sheet
\* (0 for null: insertSheet throws when the name is taken).
getOrCreatePinSheet(book) ==
  LET found == findPinSheet_PL(book)
      taken == \E i \in 1..Len(book) :
                 toLowerCase(book[i].name) = toLowerCase(PREFERRED_PIN_SHEET_NAME)
  IN IF found # 0 THEN [book |-> book, idx |-> found]
     ELSE IF taken THEN [book |-> book, idx |-> 0]
     ELSE [book |-> Append(book, ExamplePinSheet), idx |-> Len(book) + 1]

HeaderExact_PL == << <<"p","i","n">>, <<"p","i","n","s">>, <<"p","a","s","s","w","o","r","d">>, <<"c","o","d","e">>, <<"a","u","t","h">>, <<"k","e","y">> >>
HeaderPart_PL == << <<"p","i","n">>, <<"c","o","d","e">> >>

analyzePinSheetStructure(sheet) ==
  LET lastRow == getLastRow(sheet)
      firstRowValue == Cell(sheet, 1, 1)
      headerText == toLowerCase(trim(textOf(firstRowValue)))
      looksHeader ==
        /\ Truthy(firstRowValue)
        /\ \/ \E w \in Range(HeaderExact_PL) : headerText = w
           \/ \E w \in Range(HeaderPart_PL) : includes(headerText, w)
  IN IF lastRow < 1 THEN [startRow |-> 1, endRow |-> lastRow, hasHeader |-> FALSE]
     ELSE IF looksHeader /\ 2 <= lastRow
     THEN [startRow |-> 2, endRow |-> lastRow, hasHeader |-> TRUE]
     ELSE [startRow |-> 1, endRow |-> lastRow, hasHeader |-> FALSE]

\* The loop of validatePinFromSheet over the PIN list.
matchLoop_PL(pinList, pin) ==
  LET inputPin == trimV(pin)
  IN \E i \in 1..Len(pinList) :
       /\ Truthy(pinList[i])
       /\ \/ trimV(pinList[i]) = inputPin
          \/ upperV(trimV(pinList[i])) = upperV(inputPin)

pinList_PL(sheet) ==
  LET st == analyzePinSheetStructure(sheet)
  IN IF st.endRow < st.startRow THEN <<>>
     ELSE ColumnValues(sheet, st.startRow, 1, st.endRow - st.startRow + 1)

\* validatePinFromSheet once the sheet is at hand: g is what getOrCreatePinSheet
\* returned.
validateInSheet(g, pin) ==
  IF g.idx = 0
  THEN [book |-> g.book, pinList |-> <<>>,
        isValid |-> FALSE, message |-> "PIN validation sheet not available."]
  ELSE IF pinList_PL(g.book[g.idx]) = <<>>
  THEN [book |-> g.book, pinList |-> <<>>,
        isValid |-> FALSE, message |-> "No PIN data available."]
  ELSE [book |-> g.book,
        pinList |-> pinList_PL(g.book[g.idx]),
        isValid |-> matchLoop_PL(pinList_PL(g.book[g.idx]), pin),
        message |-> IF matchLoop_PL(pinList_PL(g.book[g.idx]), pin)
                    THEN "PIN validated successfully."
                    ELSE "Invalid PIN. Please check your PIN and try again."]

validatePinFromSheet(book, pin) == validateInSheet(getOrCreatePinSheet(book), pin)

\* ------------------------------------------------------------ access request script
possibleNames_AR == <<
  <<"P","I","N","s">>, <<"P","I","N">>, <<"P","i","n","s">>, <<"P","i","n">>, <<"S","h","e","e","t","1">>, <<"p","i","n","s">>, <<"p","i","n">>,
  <<"P","a","s","s","w","o","r","d">>, <<"P","a","s","s","w","o","r","d","s">>, <<"p","a","s","s","w","o","r","d">>, <<"p","a","s","s","w","o","r","d","s">>, <<"A","c","c","e","s","s"," ","C","o","d","e","s">>,
  <<"A","c","c","e","s","s","C","o","d","e","s">>, <<"a","c","c","e","s","s","_","c","o","d","e","s">>, <<"C","o","d","e","s">>, <<"c","o","d","e","s">>, <<"A","u","t","h">>, <<"a","u","t","h">>,
  <<"A","u","t","h","e","n","t","i","c","a","t","i","o","n">> >>

HeaderWords_AR == << <<"p","i","n">>, <<"p","a","s","s","w","o","r","d">>, <<"c","o","d","e">>, <<"a","u","t","h">> >>

isPinSheet_AR(sheet) ==
  LET lastRow == getLastRow(sheet)
      lastCol == getLastColumn(sheet)
      headerHit ==
        /\ lastCol >= 1
        /\ LET headerText == toLowerCase(JoinBar(RowValues(sheet, 1, Min(lastCol, 3))))
           IN \E w \in Range(HeaderWords_AR) : includes(headerText, w)
      n == Min(10, lastRow - 1)
      data == ColumnValues(sheet, Min(2, lastRow), 1, n)
      \* every text value of 3 or more characters counts, the 4-6 digit ones too
      pinLike == {i \in 1..n : Truthy(data[i]) /\ Len(trim(textOf(data[i]))) >= 3}
      dataHit == lastRow >= 2 /\ 2 * Cardinality(pinLike) >= n
  IN /\ lastRow >= 1
     /\ (headerHit \/ dataHit \/ Truthy(Cell(sheet, 1, 1)))

\* findPinSheet of the access request script: the index found, 0 for null.
findPinSheet_AR(book) ==
  LET exact == {i \in 1..Len(possibleNames_AR) :
                  LET j == getSheetByName(book, possibleNames_AR[i])
                  IN j # 0 /\ isPinSheet_AR(book[j])}
      folded == {i \in 1..Len(book) :
                   /\ \E j \in 1..Len(possibleNames_AR) :
                        toLowerCase(book[i].name) = toLowerCase(possibleNames_AR[j])
                   /\ isPinSheet_AR(book[i])}
      content == {i \in 1..Len(book) : isPinSheet_AR(book[i])}
  IN IF exact # {} THEN getSheetByName(book, possibleNames_AR[FirstOf(exact)])
     ELSE IF folded # {} THEN FirstOf(folded)
     ELSE FirstOf(content)

\* The rows validatePin reads: from row 2 when A1 looks like a header.
pinList_AR(sheet) ==
  LET lastRow == getLastRow(sheet)
      firstRowValue == Cell(sheet, 1, 1)
      headerText == toLowerCase(textOf(firstRowValue))
      startRow == IF /\ Truthy(firstRowValue)
                     /\ \E w \in Range(HeaderWords_AR) : includes(headerText, w)
                  THEN 2 ELSE 1
  IN IF lastRow < startRow THEN <<>>
     ELSE ColumnValues(sheet, startRow, 1, lastRow - startRow + 1)

\* The loop of validatePin over the PIN list: exact equality of trimmed text.
matchLoop_AR(pinList, pin) ==
  \E i \in 1..Len(pinList) : Truthy(pinList[i]) /\ trimV(pinList[i]) = trimV(pin)

validatePin(book, pin) ==
  LET idx == findPinSheet_AR(book)
  IN IF ~Truthy(pin) \/ idx = 0 THEN [pinList |-> <<>>, isValid |-> FALSE]
     ELSE [pinList |-> pinList_AR(book[idx]),
           isValid |-> matchLoop_AR(pinList_AR(book[idx]), pin)]

\* ------------------------------------------------------------ inline PIN check
\* The PIN check written out in the URL logging handlers and in the first
\* PIN validation handler: column A of the named sheet from row 2 on.
inlinePinList(book, name) ==
  LET idx == getSheetByName(book, name)
      lastPinRow == IF idx = 0 THEN 0 ELSE getLastRow(book[idx])
  IN IF lastPinRow > 1 THEN ColumnValues(book[idx], 2, 1, lastPinRow - 1) ELSE <<>>

matchLoop_inline(pinList, pin) ==
  \E i \in 1..Len(pinList) :
    LET storedPin == trimV(pinList[i])
    IN Truthy(storedPin) /\ storedPin = trimV(pin)

\* ------------------------------------------------------------ time
NaN == -1
MinuteMs == 60000
SecondMs == 1000
\* var cooldownMs = 5 * 60 * 1000
cooldownMs == 5 * 60 * 1000

\* Utilities.formatDate(date, zone, "EEEE, MMM dd, yyyy hh:mm a"): the minute.
Readable(n) == [s |-> <<>>, k |-> "readable", n |-> n - (n % MinuteMs)]
\* Utilities.formatDate(date, zone, "MM/dd/yyyy h:mm:ss a"): the second.
La(n) == [s |-> <<>>, k |-> "la", n |-> n - (n % SecondMs)]
\* new Date(v).getTime(): the instant of a date string, NaN for other text
\* (the text values given as times hold no digits).
DateParse(v) == IF v.k = "str" THEN NaN ELSE v.n

isReadableTimestampFormat(v) == v.k = "readable"

detectAndFixTimestamp(value, now) ==
  IF ~Truthy(value) THEN Readable(now)
  ELSE LET stringValue == trimV(value)
       IN IF isReadableTimestampFormat(stringValue) THEN stringValue
          ELSE IF DateParse(stringValue) = NaN THEN stringValue
          ELSE Readable(DateParse(stringValue))

\* Column A of rows 2.. rewritten by detectAndFixTimestamp.
autoFixTimestampFormats(sheet, now) ==
  LET lastRow == getLastRow(sheet)
      fix(r) == detectAndFixTimestamp(Cell(sheet, r, 1), now)
      needsUpdate == \E r \in 2..lastRow : fix(r) # Cell(sheet, r, 1)
  IN IF lastRow <= 1 \/ ~needsUpdate THEN sheet
     ELSE [sheet EXCEPT !.rows =
             [r \in 1..Len(sheet.rows) |->
                IF r < 2 \/ r > lastRow THEN sheet.rows[r]
                ELSE IF sheet.rows[r] = <<>> THEN <<fix(r)>>
                ELSE [sheet.rows[r] EXCEPT ![1] = fix(r)]]]

\* result.fixed of autoFixTimestampFormats: the cells whose repaired value differs.
fixedCount(sheet, now) ==
  Cardinality({r \in 2..getLastRow(sheet) :
                 detectAndFixTimestamp(Cell(sheet, r, 1), now) # Cell(sheet, r, 1)})

\* The row written twice.
appendRow_twice(sheet, row) ==
  [sheet EXCEPT !.rows = SubSeq(sheet.rows, 1, getLastRow(sheet)) \o <<row, row>>]
\* A write over the last row with content instead of after it.
appendRow_overLast(sheet, row) ==
  [sheet EXCEPT !.rows = Append(SubSeq(sheet.rows, 1, getLastRow(sheet) - 1), row)]
\* Sheet.appendRow: the row after the last row with content.
appendRow(sheet, row) ==
  [sheet EXCEPT !.rows = Append(SubSeq(sheet.rows, 1, getLastRow(sheet)), row)]

\* ------------------------------------------------------------ duplicate scan
\* A scan that looks at every row whatever its place.
scanRows_wholeLog(lastRows, i, url, currentTime) ==
  \E k \in 1..i :
    /\ Truthy(lastRows[k][2])
    /\ DateParse(lastRows[k][2]) # NaN
    /\ ~(currentTime - DateParse(lastRows[k][2]) > cooldownMs)
    /\ lastRows[k][1] = url
\* The scan of the URL logging handlers over lastRows, from the last row up:
\* column 1 is read as the URL, column 2 as the time.
RECURSIVE scanRows(_, _, _, _)
scanRows(lastRows, i, url, currentTime) ==
  IF i = 0 THEN FALSE
  ELSE LET rowUrl == lastRows[i][1]
           rowTimeStr == lastRows[i][2]
           rowTime == DateParse(rowTimeStr)
       IN IF ~Truthy(rowTimeStr) \/ rowTime = NaN
          THEN scanRows(lastRows, i - 1, url, currentTime)
          ELSE IF currentTime # NaN /\ currentTime - rowTime > cooldownMs THEN FALSE
          ELSE IF rowUrl = url THEN TRUE
          ELSE scanRows(lastRows, i - 1, url, currentTime)

\* The gate around the scan: only a valid PIN is checked for a duplicate.
checkDuplicate_ungated(isValidPin, lastRows, url, currentTime) ==
  scanRows(lastRows, Len(lastRows), url, currentTime)
checkDuplicate(isValidPin, lastRows, url, currentTime) ==
  isValidPin /\ scanRows(lastRows, Len(lastRows), url, currentTime)

\* sheet.getRange(2, 1, lastRow - 1, 5).getValues()
lastRowsOf(sheet) ==
  LET lastRow == getLastRow(sheet)
  IN IF lastRow > 1 THEN [i \in 1..(lastRow - 1) |-> RowValues(sheet, i + 1, 5)]
     ELSE <<>>

\* ------------------------------------------------------------ responses
\* ContentService output: the status code, and the status and message of the
\* JSON body (the text of a CORS reply in message); pinValid is the field of
\* that name in the access request script's body, FALSE where there is none.
Json(status, message, pinValid) ==
  [data |-> <<>>, message |-> message, status |-> status, pinValid |-> pinValid,
   kind |-> "json", code |-> 200]
\* handleCors of the URL logging and the first PIN validation script.
handleCors_204 ==
  [data |-> <<>>, message |-> "", status |-> "", pinValid |-> FALSE, kind |-> "cors",
   code |-> 204]
\* handleCors of the PIN list and the access request script.
handleCors_text ==
  [data |-> <<>>, message |-> "CORS handled", status |-> "", pinValid |-> FALSE,
   kind |-> "cors", code |-> 200]

\* The catch at the top level of the URL logging and the first PIN validation
\* handler: the exception text as the message of an 'error' body.
topLevelCatch_escapes(error) ==
  [data |-> <<>>, message |-> error, status |-> "", pinValid |-> FALSE,
   kind |-> "exception", code |-> 500]
topLevelCatch(error) == Json("error", error, FALSE)
\* The catch at the top level of the PIN list and the access request handler.
topLevelCatch_prefixed(error) ==
  Json("error", "Internal server error: " \o error, FALSE)

\* What the services may refuse during one run of a script: opening the PIN
\* spreadsheet, opening the access log spreadsheet, reading its data range
\* during the timestamp repair, resizing its columns.
Faults == {"none", "pinStore", "logOpen", "repair", "resize"}
\* The text of the exception a refused service call throws.
ServiceError == "Exception: Service Spreadsheets failed"

\* What a handler did: its response, the two spreadsheets afterwards, and
\* its locals isValidPin, isDuplicate, pinList and the row it appended.
Outcome(resp, log, pins, isValidPin, isDuplicate, pinList, pin, row) ==
  [row |-> row, pinList |-> pinList, pin |-> pin, isValidPin |-> isValidPin,
   resp |-> resp, log |-> log, pins |-> pins, isDuplicate |-> isDuplicate]
Stopped(resp, log, pins) == Outcome(resp, log, pins, FALSE, FALSE, <<>>, Empty, <<>>)

\* ------------------------------------------------------------ URL logging script
\* doPost of the URL logging script.
doPost_UrlLog(log, pins, req, now, fault) ==
  IF req.body = "none" THEN Stopped(handleCors_204, log, pins)
  ELSE IF req.body = "bad"
  THEN Stopped(topLevelCatch("SyntaxError"), log, pins)
  ELSE IF fault = "logOpen" THEN Stopped(topLevelCatch(ServiceError), log, pins)
  ELSE
    LET url == OrElse(req.url, Str(<<"N","/","A">>))
        title == OrElse(req.title, Str(<<"U","n","t","i","t","l","e","d"," ","P","a","g","e">>))
        timestamp == OrElse(req.timestamp, Iso(now))
        userEmail == OrElse(req.userEmail, Str(<<"U","n","k","n","o","w","n">>))
        userId == OrElse(req.userId, Str(<<"U","n","k","n","o","w","n">>))
        pin == OrElse(req.pin, Str(<<"N","o","t"," ","P","r","o","v","i","d","e","d">>))
        idx == getSheetByName(log, <<"S","h","e","e","t","1">>)
    IN IF idx = 0
       THEN Stopped(topLevelCatch("Error: Sheet named \"Sheet1\" not found."),
                    log, pins)
       ELSE
         LET sheet == log[idx]
             pinList == IF fault = "pinStore" THEN <<>>
                        ELSE inlinePinList(pins, <<"P","I","N","s">>)
             isValidPin == matchLoop_inline(pinList, pin)
             lastRows == lastRowsOf(sheet)
             currentTime == DateParse(timestamp)
             isDuplicate == checkDuplicate(isValidPin, lastRows, url, currentTime)
             status == IF isValidPin
                       THEN IF isDuplicate THEN Str(<<"D","u","p","l","i","c","a","t","e"," ","(","V","a","l","i","d"," ","P","I","N",")">>)
                            ELSE Str(<<"S","u","c","c","e","s","s"," ","(","V","a","l","i","d"," ","P","I","N",")">>)
                       ELSE Str(<<"F","a","i","l","e","d"," ","(","I","n","v","a","l","i","d"," ","P","I","N",")">>)
             row == <<url, title, timestamp, userEmail, userId, pin, status>>
             resp == IF ~isValidPin THEN Json("failure", "Invalid PIN/Password", FALSE)
                     ELSE IF isDuplicate
                     THEN Json("duplicate", "URL already requested within last 5 minutes.",
                               FALSE)
                     ELSE Json("success", "", FALSE)
         IN Outcome(resp, [log EXCEPT ![idx] = appendRow(sheet, row)], pins,
                    isValidPin, isDuplicate, pinList, pin, row)

\* ------------------------------------------------------------ second URL logging handler
expectedHeaders_UL2 == << <<"t","i","m","e","S","t","a","m","p">>, <<"u","s","e","r","E","m","a","i","l">>, <<"w","e","b","s","i","t","e","T","i","t","l","e">>,
                          <<"w","e","b","s","i","t","e","R","e","q","u","e","s","t","e","d">>, <<"p","i","n","N","u","m","b","e","r">>, <<"p","i","n","S","t","a","t","u","s">> >>

\* A header row inserted on every request.
ensureHeaders_UL2_always(sheet) ==
  [sheet EXCEPT !.rows = << [i \in 1..6 |-> Str(expectedHeaders_UL2[i])] >> \o sheet.rows]
\* The header check of the second handler: insertRowBefore(1) on a mismatch.
ensureHeaders_UL2(sheet) ==
  LET firstRowValues == RowValues(sheet, 1, 6)
      headersMatch == \A i \in 1..6 :
        toLowerCase(trim(textOf(firstRowValues[i]))) = toLowerCase(expectedHeaders_UL2[i])
  IN IF headersMatch THEN sheet
     ELSE [sheet EXCEPT !.rows =
             << [i \in 1..6 |-> Str(expectedHeaders_UL2[i])] >> \o sheet.rows]

\* doPost at the end of the access request script.
doPost_UrlLog2(log, pins, req, now, fault) ==
  IF req.body = "none" THEN Stopped(handleCors_204, log, pins)
  ELSE IF req.body = "bad"
  THEN Stopped(topLevelCatch("SyntaxError"), log, pins)
  ELSE IF fault = "logOpen" THEN Stopped(topLevelCatch(ServiceError), log, pins)
  ELSE
    LET url == OrElse(req.url, Str(<<"N","/","A">>))
        title == OrElse(req.title, Str(<<"U","n","t","i","t","l","e","d"," ","P","a","g","e">>))
        rawTimestamp == OrElse(req.timestamp, Iso(now))
        timestampDate == DateParse(rawTimestamp)
        timestamp == La(timestampDate)
        userEmail == OrElse(req.userEmail, Str(<<"U","n","k","n","o","w","n">>))
        pin == OrElse(req.pin, Str(<<"N","o","t"," ","P","r","o","v","i","d","e","d">>))
        idx == getSheetByName(log, <<"S","h","e","e","t","1">>)
    IN IF idx = 0
       THEN Stopped(topLevelCatch("Error: Sheet named \"Sheet1\" not found."),
                    log, pins)
       ELSE
         LET sheet == ensureHeaders_UL2(log[idx])
             pinList == IF fault = "pinStore" THEN <<>>
                        ELSE inlinePinList(pins, <<"S","h","e","e","t","1">>)
             isValidPin == matchLoop_inline(pinList, pin)
             lastRows == lastRowsOf(sheet)
             currentTime == timestampDate
             isDuplicate == checkDuplicate(isValidPin, lastRows, url, currentTime)
             status == IF isValidPin THEN Str(<<"V","a","l","i","d"," ","P","I","N">>) ELSE Str(<<"I","n","v","a","l","i","d"," ","P","I","N">>)
             row == <<timestamp, userEmail, title, url, pin, status>>
             resp == IF ~isValidPin THEN Json("failure", "Invalid PIN/Password", FALSE)
                     ELSE IF isDuplicate
                     THEN Json("duplicate", "URL already requested within last 1 minute.",
                               FALSE)
                     ELSE Json("success", "", FALSE)
         IN Outcome(resp, [log EXCEPT ![idx] = appendRow(sheet, row)], pins,
                    isValidPin, isDuplicate, pinList, pin, row)

\* ------------------------------------------------------------ access request handler
possibleNames_Access == <<
  <<"A","c","c","e","s","s","R","e","q","u","e","s","t","s">>, <<"A","c","c","e","s","s"," ","R","e","q","u","e","s","t","s">>, <<"A","c","c","e","s","s">>, <<"R","e","q","u","e","s","t","s">>, <<"S","h","e","e","t","1">>,
  <<"a","c","c","e","s","s">>, <<"r","e","q","u","e","s","t","s">>, <<"a","c","c","e","s","s","r","e","q","u","e","s","t","s">>, <<"a","c","c","e","s","s","_","r","e","q","u","e","s","t","s">>,
  <<"U","R","L"," ","R","e","q","u","e","s","t","s">>, <<"u","r","l","_","r","e","q","u","e","s","t","s">>, <<"u","r","l","r","e","q","u","e","s","t","s">>, <<"L","o","g","s">>, <<"l","o","g","s">>,
  <<"A","c","t","i","v","i","t","y">> >>
PREFERRED_ACCESS_SHEET_NAME == <<"A","c","c","e","s","s","R","e","q","u","e","s","t","s">>
expectedHeaders == << <<"T","i","m","e","s","t","a","m","p">>, <<"P","I","N"," ","N","u","m","b","e","r">>, <<"U","s","e","r"," ","E","m","a","i","l">>, <<"T","i","t","l","e">>,
                      <<"U","R","L">>, <<"R","e","q","u","e","s","t"," ","S","t","a","t","u","s">>, <<"M","e","d","i","a"," ","T","y","p","e">>, <<"A","c","c","e","s","s"," ","L","i","n","k">> >>
HeaderRow == [i \in 1..8 |-> Str(expectedHeaders[i])]
PENDING == Str(<<"P","E","N","D","I","N","G">>)

findAccessRequestSheet(book) ==
  LET exact == {i \in 1..Len(possibleNames_Access) :
                  getSheetByName(book, possibleNames_Access[i]) # 0}
      folded == {i \in 1..Len(book) :
                   \E j \in 1..Len(possibleNames_Access) :
                     toLowerCase(book[i].name) = toLowerCase(possibleNames_Access[j])}
      byHeader == {i \in 1..Len(book) :
                     /\ getLastRow(book[i]) >= 1
                     /\ getLastColumn(book[i]) >= 3
                     /\ LET headerText == toLowerCase(JoinBar(
                              RowValues(book[i], 1, Min(getLastColumn(book[i]), 8))))
                        IN /\ includes(headerText, <<"t","i","m","e","s","t","a","m","p">>)
                           /\ \/ includes(headerText, <<"u","r","l">>)
                              \/ includes(headerText, <<"e","m","a","i","l">>)
                              \/ includes(headerText, <<"p","i","n">>)}
  IN IF exact # {} THEN getSheetByName(book, possibleNames_Access[FirstOf(exact)])
     ELSE IF folded # {} THEN FirstOf(folded)
     ELSE FirstOf(byHeader)

getOrCreateAccessRequestSheet(book) ==
  LET found == findAccessRequestSheet(book)
  IN IF found # 0 THEN [book |-> book, idx |-> found]
     ELSE [book |-> Append(book, [rows |-> <<HeaderRow>>,
                                  name |-> PREFERRED_ACCESS_SHEET_NAME]),
           idx |-> Len(book) + 1]

\* The header repair of logAccessRequest: row 1 cleared and rewritten, the
\* columns beyond H cleared, when row 1 is not the expected headers.
repairHeaders(sheet) ==
  LET lastCol == getLastColumn(sheet)
      currentHeaders == IF getLastRow(sheet) >= 1 /\ lastCol > 0
                        THEN RowValues(sheet, 1, Min(lastCol, 8)) ELSE <<>>
      headersNeedUpdate == currentHeaders # HeaderRow \/ lastCol > 8
      cut(row) == SubSeq(row, 1, Min(Len(row), 8))
  IN IF ~headersNeedUpdate THEN sheet
     ELSE [sheet EXCEPT !.rows =
             IF sheet.rows = <<>> THEN <<HeaderRow>>
             ELSE [r \in 1..Len(sheet.rows) |->
                     IF r = 1 THEN HeaderRow ELSE cut(sheet.rows[r])]]

\* The row with the PIN and the e-mail columns exchanged.
rowData_swapped(requestData, now) ==
  << OrElse(requestData.timestamp, Readable(now)),
     requestData.userEmail,
     OrElse(requestData.pin, Str(<<"N","O"," ","P","I","N">>)),
     requestData.title, requestData.url,
     PENDING, PENDING, PENDING >>
\* The row logAccessRequest appends.
rowData(requestData, now) ==
  << OrElse(requestData.timestamp, Readable(now)),
     OrElse(requestData.pin, Str(<<"N","O"," ","P","I","N">>)),
     requestData.userEmail, requestData.title, requestData.url,
     PENDING, PENDING, PENDING >>

\* logAccessRequest undoing its append when a later step fails.
logAccessRequest_rollback(book, requestData, now, fault) ==
  [row |-> <<>>,
   book |-> book,
   message |-> IF fault \in {"logOpen", "resize"}
               THEN "Error logging access request: " \o ServiceError
               ELSE "Access request logged successfully.",
   success |-> fault \notin {"logOpen", "resize"}]
logAccessRequest(book, requestData, now, fault) ==
  LET g == getOrCreateAccessRequestSheet(book)
      sheet == repairHeaders(g.book[g.idx])
      logged == appendRow(sheet, rowData(requestData, now))
      fixed == IF fault = "repair" THEN logged
               ELSE autoFixTimestampFormats(logged, now)
  IN IF fault = "logOpen"
     THEN [row |-> <<>>,
           book |-> book,
           message |-> "Error logging access request: " \o ServiceError,
           success |-> FALSE]
     ELSE [row |-> rowData(requestData, now),
           book |-> [g.book EXCEPT ![g.idx] = fixed],
           message |-> IF fault = "resize"
                       THEN "Error logging access request: " \o ServiceError
                       ELSE "Access request logged successfully.",
           success |-> fault # "resize"]

\* doPost at the head of the access request script.
\* ---- data retrieval
\* The JSON array and the error object handleDataRetrieval answers with.
DataRows(userRows) ==
  [data |-> userRows, message |-> "", status |-> "", pinValid |-> FALSE, kind |-> "json",
   code |-> 200]
DataError(error) ==
  [data |-> <<>>, message |-> error, status |-> "", pinValid |-> FALSE,
   kind |-> "json", code |-> 200]
emailColumns == << <<"U","s","e","r"," ","E","m","a","i","l">>, <<"u","s","e","r","E","m","a","i","l">>, <<"e","m","a","i","l">>, <<"E","m","a","i","l">>, <<"u","s","e","r","_","e","m","a","i","l">> >>
\* rowData of handleDataRetrieval: the trimmed values of a row under the
\* trimmed headers, a later column replacing an earlier one of the same header.
rowObject(headers, row) ==
  [h \in {trim(textOf(headers[j])) : j \in 1..Len(headers)} |->
     LET js == {j \in 1..Len(headers) : trim(textOf(headers[j])) = h}
     IN trimV(row[CHOOSE j \in js : \A i \in js : i <= j])]
rowUserEmail(obj) ==
  LET S == {k \in 1..Len(emailColumns) :
              emailColumns[k] \in DOMAIN obj /\ Truthy(obj[emailColumns[k]])}
  IN IF S = {} THEN Empty ELSE lowerV(obj[emailColumns[FirstOf(S)]])
\* The comparison of a row's e-mail with the parameter.
belongsTo_exact(obj, userEmail) == rowUserEmail(obj) = userEmail
belongsTo(obj, userEmail) == rowUserEmail(obj) = lowerV(userEmail)
RECURSIVE userRowsFrom(_, _, _, _)
userRowsFrom(sheet, i, lastCol, userEmail) ==
  IF i > getLastRow(sheet) THEN <<>>
  ELSE (IF belongsTo(rowObject(RowValues(sheet, 1, lastCol), RowValues(sheet, i, lastCol)),
                     userEmail)
        THEN << rowObject(RowValues(sheet, 1, lastCol), RowValues(sheet, i, lastCol)) >>
        ELSE <<>>)
       \o userRowsFrom(sheet, i + 1, lastCol, userEmail)
handleDataRetrieval(book, userEmail) ==
  IF ~Truthy(userEmail) THEN DataError("userEmail parameter is required")
  ELSE IF findAccessRequestSheet(book) = 0
  THEN DataError("No access request sheet found")
  ELSE IF getLastRow(book[findAccessRequestSheet(book)]) <= 1 THEN DataRows(<<>>)
  ELSE DataRows(userRowsFrom(book[findAccessRequestSheet(book)], 2,
                             getLastColumn(book[findAccessRequestSheet(book)]),
                             userEmail))
\* doGet at the head of the access request script.
doGet_Access(log, pins, req) ==
  IF req.action = "getData"
  THEN Stopped(handleDataRetrieval(log, req.userEmail), log, pins)
  ELSE Stopped(handleCors_text, log, pins)
\* doGet of the other scripts, and the second doGet of the access request
\* script: handleCors of the script.
doGet_Cors(s, log, pins) ==
  Stopped(IF s = "pinList" THEN handleCors_text ELSE handleCors_204, log, pins)

\* What validatePin returns from its catch.
validatePin_failOpen(pin) == [pinList |-> <<>>, isValid |-> TRUE]
validatePin_caught(pin) == [pinList |-> <<>>, isValid |-> FALSE]

doPost_Access(log, pins, req, now, fault) ==
  IF req.body = "none" THEN Stopped(handleCors_text, log, pins)
  ELSE IF req.body = "bad"
  THEN Stopped(topLevelCatch_prefixed("SyntaxError"), log, pins)
  ELSE
    LET url == OrElse(req.url, Empty)
        title == OrElse(req.title, Empty)
        timestamp == OrElse(req.timestamp, Readable(now))
        userEmail == OrElse(req.userEmail, Empty)
        pin == OrElse(req.pin, Empty)
        v == IF fault = "pinStore" /\ Truthy(pin) THEN validatePin_caught(pin)
             ELSE validatePin(pins, pin)
        isPinValid == Truthy(pin) /\ v.isValid
        logResult == logAccessRequest(log,
                       [pin |-> pin, url |-> url, title |-> title,
                        timestamp |-> timestamp, userEmail |-> userEmail,
                        isPinValid |-> isPinValid],
                       now, fault)
    IN Outcome(Json(IF logResult.success THEN "success" ELSE "error",
                    logResult.message, isPinValid),
               logResult.book, pins, isPinValid, FALSE, v.pinList, pin, logResult.row)

\* ------------------------------------------------------------ PIN validation handlers
\* doPost of the PIN list script.
\* What validatePinFromSheet returns from its catch.
validateFailed(book) ==
  [book |-> book, pinList |-> <<>>,
   isValid |-> FALSE, message |-> "Error validating PIN: " \o ServiceError]

reply_PinList(log, pin, validationResult) ==
  Outcome(Json(IF validationResult.isValid THEN "success" ELSE "error",
               validationResult.message, FALSE),
          log, validationResult.book, validationResult.isValid, FALSE,
          validationResult.pinList, pin, <<>>)

doPost_PinList(log, pins, req, now, fault) ==
  IF req.body = "none" THEN Stopped(handleCors_text, log, pins)
  ELSE IF req.body = "bad"
  THEN Stopped(topLevelCatch_prefixed("SyntaxError"), log, pins)
  ELSE IF fault = "pinStore"
  THEN reply_PinList(log, OrElse(req.pin, Empty), validateFailed(pins))
  ELSE reply_PinList(log, OrElse(req.pin, Empty),
                     validatePinFromSheet(pins, OrElse(req.pin, Empty)))

\* doPost of the first PIN validation script.
doPost_PinCheck(log, pins, req, now, fault) ==
  IF req.body = "none" THEN Stopped(handleCors_204, log, pins)
  ELSE IF req.body = "bad"
  THEN Stopped(topLevelCatch("SyntaxError"), log, pins)
  ELSE IF fault = "pinStore" THEN Stopped(topLevelCatch(ServiceError), log, pins)
  ELSE
    LET pin == OrElse(req.pin, Empty)
        pinList == inlinePinList(pins, <<"P","I","N","s">>)
        isValid == matchLoop_inline(pinList, pin)
    IN IF getSheetByName(pins, <<"P","I","N","s">>) = 0
       THEN Stopped(topLevelCatch("Error: Sheet named \"PINs\" not found."),
                    log, pins)
       ELSE Outcome(Json(IF isValid THEN "success" ELSE "failure",
                         IF isValid THEN "PIN valid" ELSE "Invalid PIN/Password",
                         FALSE),
                    log, pins, isValid, FALSE, pinList, pin, <<>>)

\* ------------------------------------------------------------ state
VARIABLES
  script,    \* the script deployed as the web app
  pinBook,   \* the PIN spreadsheet
  logBook,   \* the access log spreadsheet
  resp,      \* the response of the last request
  last,      \* the last request and what its handler did (history)
  left,      \* requests still to be handled in this behaviour
  fault,     \* the service call that is refused in this behaviour
  pending    \* a URL logging request that has read the log and not yet appended

vars == <<script, pinBook, logBook, resp, last, left, fault, pending>>

Scripts == {"urlLog", "urlLog2", "access", "pinList", "pinCheck"}
Loggers == {"urlLog", "urlLog2", "access"}

\* ------------------------------------------------------------ inputs
Urls == {Str(<<"u">>), Str(<<"v">>)}
Ex == Str(<<"E","x">>)
Mail == Str(<<"a","@","b",".","c">>)
Blank == Str(<<" ">>)
PinAb == Str(<<"a","b">>)
\* A title that is itself a date string.
DateTitle == Iso(0)
\* Instants of the client's timestamps: a start, 10 seconds and 310 seconds on.
StampTimes == {0, 10 * SecondMs, 310 * SecondMs}
\* Instants the script's clock may show.
NowTimes == {0, 6 * MinuteMs}

\* The pins tried against every PIN store.
PinInputs == {PinAb, Str(<<"A","B">>), Str(<<" ","a","b"," ">>), Str(<<"z","z">>), Empty, Blank,
              Str(<<"p","i","n">>), Str(<<"1","2","3","4","5","6">>)}
LogPins == {PinAb, Str(<<"z","z">>)}

Request(url, title, timestamp, pin) ==
  [pin |-> pin, url |-> url, body |-> "json", title |-> title,
   timestamp |-> timestamp, userEmail |-> Mail, userId |-> Empty, action |-> ""]
\* The e-mail addresses of the data retrieval: the client's in other case and
\* between blanks, and another client's.
MailUpper == Str(<<"A","@","B",".","C">>)
MailPadded == Str(<<" ","a","@","b",".","c"," ">>)
MailOther == Str(<<"x","@","y",".","z">>)
\* A GET with its query parameters; a missing parameter is the empty string.
GetRequest(action, userEmail) ==
  [Request(Empty, Empty, Empty, Empty) EXCEPT
     !.body = "get", !.action = action, !.userEmail = userEmail]
GetDataRequests ==
  {GetRequest("getData", m) : m \in {Mail, MailUpper, MailPadded, MailOther, Empty}}
NoBody == [Request(Empty, Empty, Empty, Empty) EXCEPT !.body = "none"]
BadBody == [Request(Empty, Empty, Empty, Empty) EXCEPT !.body = "bad"]

\* A request whose url field holds the text of a formatted time and whose
\* userEmail field holds a date string.
DateUrlRequest == [Request(La(0), Ex, Iso(0), PinAb) EXCEPT !.userEmail = Iso(0)]

\* The timestamps a client sends to each logger.
StampsFor(s) ==
  IF s = "access" THEN {Iso(10 * SecondMs), Readable(MinuteMs), Blank, Empty}
  ELSE {Iso(t) : t \in StampTimes}
TitlesFor(s) == IF s = "urlLog" THEN {Ex, DateTitle} ELSE {Ex}

RequestsFor(s) ==
  {NoBody, BadBody}
  \cup {Request(Str(<<"u">>), Ex, Iso(0), p) : p \in PinInputs}
  \cup (IF s \in Loggers
        THEN {Request(u, t, ts, p) :
                u \in Urls, t \in TitlesFor(s), ts \in StampsFor(s), p \in LogPins}
             \cup {Request(Str(<<"u">>), Ex, Empty, PinAb)}
        ELSE {})
  \cup (IF s = "urlLog2" THEN {DateUrlRequest} ELSE {})
  \cup (IF s = "access"
        THEN {[Request(Str(<<"u">>), Ex, Iso(0), PinAb) EXCEPT !.userEmail = m] :
                m \in {MailUpper, MailPadded, MailOther, Empty}}
        ELSE {})

\* ------------------------------------------------------------ initial states
PinCells == {Str(<<"P","I","N">>), PinAb, Blank, Empty, Str(<<"N","o","t"," ","P","r","o","v","i","d","e","d">>)}
PinColumns ==
  UNION {{c \in [1..n -> PinCells] : n > 0 => Truthy(c[n])} : n \in 0..MaxPinRows}
PinSheetNames == {<<"P","I","N","s">>, <<"S","h","e","e","t","1">>}
PinBooks ==
  {<< [rows |-> [i \in 1..Len(c) |-> <<c[i]>>], name |-> nm] >> :
     nm \in PinSheetNames, c \in PinColumns}

\* The PIN store of a deployment whose access log is explored: a header and
\* one PIN, in the sheet the script reads.
LogPinBook(s) ==
  << [rows |-> << <<Str(<<"P","I","N">>)>>, <<PinAb>> >>,
      name |-> IF s = "urlLog2" THEN <<"S","h","e","e","t","1">> ELSE <<"P","I","N","s">>] >>

\* The header row an administrator typed into the URL log.
UrlLogHeader == << Str(<<"U","R","L">>), Str(<<"T","i","t","l","e">>), Str(<<"T","i","m","e","s","t","a","m","p">>), Str(<<"E","m","a","i","l">>),
                   Str(<<"I","D">>), Str(<<"P","I","N">>), Str(<<"S","t","a","t","u","s">>) >>
HeaderFor(s) ==
  IF s = "urlLog2" THEN [i \in 1..6 |-> Str(expectedHeaders_UL2[i])]
  ELSE IF s = "urlLog" THEN UrlLogHeader ELSE HeaderRow
Headered(s) == << [rows |-> <<HeaderFor(s)>>, name |-> <<"S","h","e","e","t","1">>] >>
\* A new spreadsheet: one empty sheet named Sheet1; and one whose only sheet
\* was renamed.
LogBooks(s) ==
  { Headered(s),
    << [rows |-> <<>>, name |-> <<"S","h","e","e","t","1">>] >>,
    << [rows |-> <<>>, name |-> <<"D","a","t","a">>] >> }

NoResp == [data |-> <<>>, message |-> "", status |-> "", pinValid |-> FALSE, kind |-> "none",
           code |-> 0]
NoLast == [now |-> 0, req |-> NoBody, script |-> "none", pre |-> <<>>, prePins |-> <<>>,
           out |-> Stopped(NoResp, <<>>, <<>>), prevReq |-> NoBody,
           prevOut |-> Stopped(NoResp, <<>>, <<>>), read |-> <<>>]
NoPending == [req |-> NoBody, out |-> Stopped(NoResp, <<>>, <<>>), read |-> <<>>,
              active |-> FALSE]

Init ==
  /\ script \in Scripts
  /\ \/ /\ pinBook \in PinBooks
        /\ logBook = Headered(script)
        /\ left = 1
        /\ fault = "none"
     \/ /\ script \in Loggers
        /\ pinBook = LogPinBook(script)
        /\ logBook \in LogBooks(script)
        /\ left = MaxPosts
        /\ fault = "none"
     \/ /\ pinBook = LogPinBook(script)
        /\ logBook = Headered(script)
        /\ left = 1
        /\ fault \in Faults \ {"none"}
  /\ resp = NoResp
  /\ last = NoLast
  /\ pending = NoPending

\* ------------------------------------------------------------ actions
\* One request handled by the deployed handler.
Handle(s, out, req, now) ==
  /\ script = s
  /\ left > 0
  /\ left' = left - 1
  /\ resp' = out.resp
  /\ logBook' = out.log
  /\ pinBook' = out.pins
  /\ last' = [now |-> now, req |-> req, script |-> s, pre |-> logBook,
              prePins |-> pinBook, out |-> out, prevReq |-> last.req,
              prevOut |-> last.out, read |-> logBook]
  /\ UNCHANGED <<script, fault, pending>>

PostUrlLog ==
  \E req \in RequestsFor("urlLog"), now \in NowTimes :
    Handle("urlLog", doPost_UrlLog(logBook, pinBook, req, now, fault), req, now)
PostUrlLog2 ==
  \E req \in RequestsFor("urlLog2"), now \in NowTimes :
    Handle("urlLog2", doPost_UrlLog2(logBook, pinBook, req, now, fault), req, now)
PostAccess ==
  \E req \in RequestsFor("access"), now \in NowTimes :
    Handle("access", doPost_Access(logBook, pinBook, req, now, fault), req, now)
PostPinList ==
  \E req \in RequestsFor("pinList"), now \in NowTimes :
    Handle("pinList", doPost_PinList(logBook, pinBook, req, now, fault), req, now)
PostPinCheck ==
  \E req \in RequestsFor("pinCheck"), now \in NowTimes :
    Handle("pinCheck", doPost_PinCheck(logBook, pinBook, req, now, fault), req, now)

\* A GET to the access request script: doGet at its head.
GetAccess ==
  \E req \in GetDataRequests \cup {GetRequest("", Empty)} :
    Handle("access", doGet_Access(logBook, pinBook, req), req, 0)
\* A GET to a script whose doGet only answers handleCors.
GetCors ==
  \E s \in Scripts \ {"access"} :
    Handle(s, doGet_Cors(s, logBook, pinBook), GetRequest("", Empty), 0)

\* ---- two requests at once
\* The requests followed step by step: one URL with the stored PIN.
RaceRequests(s) == {Request(Str(<<"u">>), t, Iso(0), PinAb) : t \in TitlesFor(s)}
\* The log after the header check, which the second handler runs before it
\* reads the rows.
headersEnsured(s, book) ==
  IF s = "urlLog2" /\ getSheetByName(book, <<"S","h","e","e","t","1">>) # 0
  THEN [book EXCEPT ![getSheetByName(book, <<"S","h","e","e","t","1">>)] = ensureHeaders_UL2(@)]
  ELSE book
\* A URL logging handler runs up to its appendRow: the rows are read and the
\* row and the response are decided.
Begin(s, out, req) ==
  /\ script = s
  /\ left > 0
  /\ ~pending.active
  /\ out.row # <<>>
  /\ left' = left - 1
  /\ logBook' = headersEnsured(s, logBook)
  /\ pending' = [req |-> req, out |-> out, read |-> headersEnsured(s, logBook),
                 active |-> TRUE]
  /\ UNCHANGED <<script, pinBook, resp, last, fault>>
BeginUrlLog ==
  \E req \in RaceRequests("urlLog") :
    Begin("urlLog", doPost_UrlLog(logBook, pinBook, req, 0, fault), req)
BeginUrlLog2 ==
  \E req \in RaceRequests("urlLog2") :
    Begin("urlLog2", doPost_UrlLog2(logBook, pinBook, req, 0, fault), req)
\* The same request handled in one piece on the log as it is at the append.
appendDecided_locked(s, p, log, pins, f) ==
  IF s = "urlLog" THEN doPost_UrlLog(log, pins, p.req, 0, f)
  ELSE doPost_UrlLog2(log, pins, p.req, 0, f)
\* sheet.appendRow of the row decided at the read, on the log as it is now.
appendDecided(s, p, log, pins, f) ==
  [p.out EXCEPT !.log =
     [log EXCEPT ![getSheetByName(log, <<"S","h","e","e","t","1">>)] = appendRow(@, p.out.row)]]
\* The handler appends its row and answers.
Finish(out) ==
  /\ pending.active
  /\ logBook' = out.log
  /\ resp' = out.resp
  /\ last' = [now |-> 0, req |-> pending.req, script |-> script, pre |-> logBook,
              prePins |-> pinBook, out |-> out, prevReq |-> last.req,
              prevOut |-> last.out, read |-> pending.read]
  /\ pending' = NoPending
  /\ UNCHANGED <<script, pinBook, left, fault>>
FinishUrlLog == Finish(appendDecided(script, pending, logBook, pinBook, fault))

Next ==
  \/ BeginUrlLog \/ BeginUrlLog2 \/ FinishUrlLog
  \/ PostUrlLog \/ PostUrlLog2 \/ PostAccess \/ PostPinList \/ PostPinCheck
  \/ GetAccess \/ GetCors

Spec == Init /\ [][Next]_vars

\* ------------------------------------------------------------ properties
\* A request with a JSON body was handled last.
Posted == last.script # "none" /\ last.req.body = "json"
UrlLoggers == {"urlLog", "urlLog2"}
\* The access log sheet the URL logging handlers write existed before the
\* request and its spreadsheet could be opened.
LogSheetThere == getSheetByName(last.pre, <<"S","h","e","e","t","1">>) # 0 /\ fault # "logOpen"

\* The documented rule: the trimmed candidate equals a trimmed non-blank
\* stored PIN, as written or with case folded.
DocumentedValid(pinList, c) ==
  \E i \in 1..Len(pinList) :
    /\ trim(textOf(pinList[i])) # <<>>
    /\ \/ trim(textOf(pinList[i])) = trim(textOf(c))
       \/ toLowerCase(trim(textOf(pinList[i]))) = toLowerCase(trim(textOf(c)))

\* C1: every validator reports a candidate valid if and only if its trimmed
\* text equals the trimmed text of a non-blank stored PIN of the list it read,
\* case-sensitively or case-insensitively.
C1_ValidIffTrimmedEqual ==
  Posted => (last.out.isValidPin <=> DocumentedValid(last.out.pinList, last.out.pin))

\* The instant a URL logging handler logged for a request.
LoggedTime(s, row) == IF s = "urlLog" THEN DateParse(row[3]) ELSE DateParse(row[1])
\* Two requests of one URL, both with a valid PIN, handled one after the
\* other by a URL logging handler, the second not stamped before the first.
ValidPair ==
  /\ Posted
  /\ last.script \in UrlLoggers
  /\ last.prevReq.body = "json"
  /\ last.out.isValidPin /\ last.prevOut.isValidPin
  /\ last.out.row # <<>> /\ last.prevOut.row # <<>>
  /\ last.req.url = last.prevReq.url
  /\ LoggedTime(last.script, last.out.row) >= LoggedTime(last.script, last.prevOut.row)

\* C2: of two valid-PIN requests of one URL in a row, the second is answered
\* 'duplicate' if and only if its timestamp is within the 5 minute cooldown of
\* the timestamp logged for the first.
C2_DuplicateIffWithinCooldown ==
  ValidPair =>
    (last.out.resp.status = "duplicate"
       <=> LoggedTime(last.script, last.out.row)
             - LoggedTime(last.script, last.prevOut.row) <= cooldownMs)

\* The status column of the row a URL logging handler appended.
StatusOf(s, row) == IF s = "urlLog" THEN row[7] ELSE row[6]
FailedStatus(s) == IF s = "urlLog" THEN Str(<<"F","a","i","l","e","d"," ","(","I","n","v","a","l","i","d"," ","P","I","N",")">>) ELSE Str(<<"I","n","v","a","l","i","d"," ","P","I","N">>)
RowsOf(book, name) == book[getSheetByName(book, name)].rows
\* The rows with content of the log sheet as the handler found it, under the
\* header row the second handler puts in when it is missing.
RowsBefore(s, book) ==
  LET found == book[getSheetByName(book, <<"S","h","e","e","t","1">>)]
      sheet == IF s = "urlLog2" THEN ensureHeaders_UL2(found) ELSE found
  IN SubSeq(sheet.rows, 1, getLastRow(sheet))

\* C3: an invalid PIN never triggers duplicate suppression: whatever was
\* submitted before, a request with an invalid PIN handled by a URL logging
\* handler whose log sheet exists is answered 'failure', is not flagged a
\* duplicate, and appends one row whose status is the Failed status.
C3_InvalidPinNeverDuplicate ==
  (Posted /\ last.script \in UrlLoggers /\ LogSheetThere /\ ~last.out.isValidPin) =>
    /\ last.out.resp.status = "failure"
    /\ ~last.out.isDuplicate
    /\ StatusOf(last.script, last.out.row) = FailedStatus(last.script)
    /\ RowsOf(last.out.log, <<"S","h","e","e","t","1">>)
         = Append(RowsBefore(last.script, last.pre), last.out.row)

\* Two invalid-PIN requests of one URL in a row, the first logged with a date
\* the scan would have taken for a recent request of that URL.
C3_TwoInvalidSameUrl ==
  /\ Posted /\ last.script \in UrlLoggers /\ LogSheetThere
  /\ last.prevReq.body = "json"
  /\ ~last.out.isValidPin /\ ~last.prevOut.isValidPin
  /\ last.req.url = last.prevReq.url
  /\ last.prevOut.resp.status = "failure"
  /\ last.out.resp.status = "failure"
  /\ Len(RowsOf(last.out.log, <<"S","h","e","e","t","1">>)) >= 3

\* The columns of the URL and of the request status in the row each logger writes.
UrlColumn(s) == IF s = "urlLog" THEN 1 ELSE IF s = "urlLog2" THEN 4 ELSE 5
StatusColumn(s) == IF s = "urlLog" THEN 7 ELSE 6
\* The sheet a logger writes, as an index of the spreadsheet (0: none).
LogSheetIndex(s, book) ==
  IF s \in UrlLoggers THEN getSheetByName(book, <<"S","h","e","e","t","1">>)
  ELSE findAccessRequestSheet(book)
\* The rows with content of the log sheet once its header row is in place.
BaseRows(s, book) ==
  IF LogSheetIndex(s, book) = 0 THEN <<HeaderRow>>
  ELSE LET found == book[LogSheetIndex(s, book)]
           sheet == IF s = "urlLog2" THEN ensureHeaders_UL2(found)
                    ELSE IF s = "access" THEN repairHeaders(found) ELSE found
       IN SubSeq(sheet.rows, 1, getLastRow(sheet))
RowsAfter(s, book) == book[LogSheetIndex(s, book)].rows
\* The request was logged as one new last row.
OneRowAppended ==
  /\ last.out.row # <<>>
  /\ LogSheetIndex(last.script, last.out.log) # 0
  /\ Len(RowsAfter(last.script, last.out.log))
       = Len(BaseRows(last.script, last.pre)) + 1
LastStatus ==
  RowsAfter(last.script, last.out.log)
    [Len(RowsAfter(last.script, last.out.log))][StatusColumn(last.script)]
ReflectsSuccess(v) ==
  v \in {Str(<<"S","u","c","c","e","s","s"," ","(","V","a","l","i","d"," ","P","I","N",")">>), Str(<<"V","a","l","i","d"," ","P","I","N">>), Str(<<"S","u","c","c","e","s","s">>)}
ReflectsFailure(v) ==
  v \in {Str(<<"F","a","i","l","e","d"," ","(","I","n","v","a","l","i","d"," ","P","I","N",")">>), Str(<<"I","n","v","a","l","i","d"," ","P","I","N">>), Str(<<"F","a","i","l","e","d">>)}
\* A logger handled a JSON request and its log sheet was there.
Logged ==
  /\ Posted
  /\ last.script \in Loggers
  /\ last.script \in UrlLoggers => LogSheetThere
\* No row of the log held the URL of the request before it.
UrlNotLogged ==
  LogSheetIndex(last.script, last.pre) # 0 =>
    \A r \in 1..Len(last.pre[LogSheetIndex(last.script, last.pre)].rows) :
      LET row == last.pre[LogSheetIndex(last.script, last.pre)].rows[r]
      IN Len(row) >= UrlColumn(last.script) => row[UrlColumn(last.script)] # last.req.url

\* C4: a request whose pin equals a stored PIN and whose URL is not a
\* duplicate is answered 'success', and exactly one new row is appended to the
\* access log whose request status reflects the success.
C4_ValidPinLogsSuccess ==
  (/\ Logged
   /\ trim(textOf(last.req.pin)) # <<>>
   /\ \E i \in 1..Len(last.out.pinList) : last.out.pinList[i] = last.req.pin
   /\ UrlNotLogged) =>
    /\ last.out.resp.status = "success"
    /\ OneRowAppended
    /\ ReflectsSuccess(LastStatus)

\* C5: a request whose pin matches no stored PIN is answered 'failure' with
\* the message 'Invalid PIN/Password', and a row for it is still appended to
\* the access log with a failed status in it.
C5_WrongPinLogsFailure ==
  (/\ Logged
   /\ trim(textOf(last.req.pin)) # <<>>
   /\ last.out.pinList # <<>>
   /\ ~DocumentedValid(last.out.pinList, last.req.pin)) =>
    /\ last.out.resp.status = "failure"
    /\ last.out.resp.message = "Invalid PIN/Password"
    /\ OneRowAppended
    /\ ReflectsFailure(LastStatus)

\* The PIN store holds no PIN record: no sheet, or in every sheet nothing or
\* one header row.
NoPinRecords(book) ==
  \A i \in 1..Len(book) :
    \/ getLastRow(book[i]) = 0
    \/ getLastRow(book[i]) = 1 /\ Cell(book[i], 1, 1) = Str(<<"P","I","N">>)

\* C6: when the PIN store holds no PIN records, validation returns invalid
\* for every candidate.
C6_EmptyStoreNeverValid ==
  (Posted /\ NoPinRecords(last.prePins)) => ~last.out.isValidPin

\* C7: when the access log holds only its header row, a valid-PIN request is
\* not flagged a duplicate, is appended as the first data row and is answered
\* 'success'.
C7_HeaderOnlyLogFirstAppend ==
  (/\ Posted
   /\ last.script \in UrlLoggers
   /\ last.pre = Headered(last.script)
   /\ last.out.isValidPin) =>
    /\ ~last.out.isDuplicate
    /\ last.out.resp.status = "success"
    /\ RowsOf(last.out.log, <<"S","h","e","e","t","1">>) = <<HeaderFor(last.script), last.out.row>>
    /\ last.out.row[UrlColumn(last.script)] = OrElse(last.req.url, Str(<<"N","/","A">>))

\* A valid-PIN request was handled against a log holding only its header row.
C7_FirstRowUnderHeader ==
  /\ Posted
  /\ last.script \in UrlLoggers
  /\ last.pre = Headered(last.script)
  /\ last.out.isValidPin
  /\ getLastRow(last.out.log[1]) = 2

\* The record of the request in the canonical column order: the fields
\* doPost hands to logAccessRequest and the three placeholders.
RecordOf(req, now) ==
  << OrElse(req.timestamp, Readable(now)),
     OrElse(OrElse(req.pin, Empty), Str(<<"N","O"," ","P","I","N">>)),
     OrElse(req.userEmail, Empty), OrElse(req.title, Empty), OrElse(req.url, Empty),
     PENDING, PENDING, PENDING >>
LastRowAfter ==
  RowsAfter("access", last.out.log)[Len(RowsAfter("access", last.out.log))]

C10_AppendOnly ==
  (Posted /\ last.script \in Loggers) =>
    \A i \in 1..Len(last.pre) :
      \E k \in 0..1 :
        \A r \in 2..getLastRow(last.pre[i]) :
          /\ r + k <= Len(last.out.log[i].rows)
          /\ last.out.log[i].rows[r + k] = last.pre[i].rows[r]

\* ------------------------------------------------------------ headers
\* C11: whenever a logger appends a data row, row 1 of the access sheet then
\* holds exactly the header list of its script.
C11_HeaderRowCanonical ==
  (Logged /\ last.out.row # <<>>) =>
    RowsAfter(last.script, last.out.log)[1] = HeaderFor(last.script)

\* ------------------------------------------------------------ errors
\* The text JSON.parse throws on a body that is not JSON.
ParseError == "SyntaxError"
Statuses == {"success", "duplicate", "failure", "error"}
HasBody == last.script # "none" /\ last.req.body \in {"json", "bad"}
NoBodyPost == last.script # "none" /\ last.req.body = "none"

\* C13: every POST that carries a body, malformed or not, is answered with a
\* JSON response whose status is one of 'success', 'duplicate', 'failure',
\* 'error'; a body that fails to parse yields 'error' with the exception
\* text as message, after 'Internal server error: ' in the PIN list and
\* the access request script.
C13_BodyAlwaysAnsweredJson ==
  HasBody =>
    /\ resp.kind = "json"
    /\ resp.status \in Statuses
    /\ last.req.body = "bad" =>
         /\ resp.status = "error"
         /\ resp.message = IF last.script \in {"access", "pinList"}
                           THEN "Internal server error: " \o ParseError
                           ELSE ParseError
\* A malformed body reached the access request script.
C13_ParseErrorPrefixed ==
  /\ last.script = "access"
  /\ last.req.body = "bad"
  /\ resp.message = "Internal server error: " \o ParseError
\* C13 as stated: every POST, whatever its input, is answered with a JSON
\* response of one of the four statuses, and a body that fails to parse with
\* the exception text as message.
C13_EveryPostAnsweredJson ==
  last.script # "none" =>
    /\ resp.kind = "json"
    /\ resp.status \in Statuses
    /\ last.req.body = "bad" => resp.status = "error" /\ resp.message = ParseError

\* No sheet of the spreadsheet has the name.
NoSheetNamed(book, name) == \A i \in 1..Len(book) : book[i].name # name

\* C14: when the sheet a handler opens by name does not exist, the POST is
\* answered 'error' and neither the access log nor the PIN store is changed.
C14_MissingSheetIsError ==
  (/\ Posted
   /\ fault = "none"
   /\ \/ last.script \in UrlLoggers /\ NoSheetNamed(last.pre, <<"S","h","e","e","t","1">>)
      \/ last.script = "pinCheck" /\ NoSheetNamed(last.prePins, <<"P","I","N","s">>))
  => /\ resp.kind = "json"
     /\ resp.status = "error"
     /\ last.out.log = last.pre
     /\ last.out.pins = last.prePins
C14_PostWithoutSheet ==
  /\ Posted
  /\ last.script \in UrlLoggers
  /\ NoSheetNamed(last.pre, <<"S","h","e","e","t","1">>)
  /\ resp.status = "error"
  /\ logBook = last.pre

\* C15: when opening the PIN store throws during a POST to a logger, the PIN
\* is treated as invalid and the request is still logged and answered: the
\* answer is not 'error', it does not report a valid PIN, and one row is
\* appended, which a URL logging handler marks as failed.
C15_PinStoreFailureFailsClosed ==
  (Logged /\ fault = "pinStore") =>
    /\ resp.kind = "json"
    /\ resp.status # "error"
    /\ ~last.out.isValidPin
    /\ ~resp.pinValid
    /\ OneRowAppended
    /\ last.script \in UrlLoggers =>
         /\ resp.status = "failure"
         /\ LastStatus = FailedStatus(last.script)
    /\ last.script = "access" => resp.status = "success" /\ ~ReflectsSuccess(LastStatus)
\* The stored PIN was sent while the PIN store could not be opened.
C15_StoredPinWhileStoreDown ==
  /\ Logged
  /\ fault = "pinStore"
  /\ last.script = "access"
  /\ last.req.pin = PinAb
  /\ OneRowAppended

\* C16: when a step of logAccessRequest throws, the call reports failure and
\* the POST is answered 'error' with its message; nothing is appended when
\* the spreadsheet could not be opened, and the row appended before a failed
\* column resize stays in the log. A failure inside the timestamp repair is
\* caught by the repair: the row is logged and the POST answered 'success'.
C16_LogFailureIsErrorRowStays ==
  (Posted /\ last.script = "access") =>
    /\ fault \in {"logOpen", "resize"} =>
         /\ resp.status = "error"
         /\ resp.message = "Error logging access request: " \o ServiceError
    /\ fault = "logOpen" => last.out.log = last.pre
    /\ fault \in {"resize", "repair"} =>
         /\ OneRowAppended
         /\ RowsAfter("access", logBook)[Len(RowsAfter("access", logBook))][5]
              = last.req.url
    /\ fault = "repair" => resp.status = "success"
\* The resize failed after the row was appended.
C16_RowStaysAfterResizeFailure ==
  /\ Posted
  /\ last.script = "access"
  /\ fault = "resize"
  /\ resp.status = "error"
  /\ OneRowAppended
\* C16 as stated: a failure in the timestamp repair or in the column resize
\* makes the POST answer 'error' while the appended row stays.
C16_RepairOrResizeFailureIsError ==
  (Posted /\ last.script = "access" /\ fault \in {"repair", "resize"}) =>
    resp.status = "error" /\ OneRowAppended

\* ------------------------------------------------------------ GET
GotData == last.script = "access" /\ last.req.body = "get" /\ last.req.action = "getData"
\* The access log sheet the data retrieval read, as an index (0: none).
DataSheet == findAccessRequestSheet(last.pre)
\* The data rows of the log whose e-mail cell, under the canonical header
\* row, equals the userEmail parameter ignoring case: as stored, and trimmed.
RowsEqualIgnoringCase ==
  {i \in 2..getLastRow(last.pre[DataSheet]) :
     lowerV(Cell(last.pre[DataSheet], i, 3)) = lowerV(last.req.userEmail)}
RowsTrimmedEqualIgnoringCase ==
  {i \in 2..getLastRow(last.pre[DataSheet]) :
     lowerV(trimV(Cell(last.pre[DataSheet], i, 3))) = lowerV(last.req.userEmail)}
CanonicalLog ==
  /\ DataSheet # 0
  /\ getLastRow(last.pre[DataSheet]) >= 1
  /\ RowValues(last.pre[DataSheet], 1, 8) = HeaderRow
\* The rows returned are one per row of the set, each with the e-mail asked for.
ReturnsRows(S) ==
  /\ resp.message = ""
  /\ Len(resp.data) = Cardinality(S)
  /\ \A k \in 1..Len(resp.data) :
       \E i \in S :
         resp.data[k] = rowObject(HeaderRow, RowValues(last.pre[DataSheet], i, 8))

\* C17: GET with action=getData and userEmail=u returns exactly the data rows
\* of the access log whose e-mail cell, trimmed, equals u ignoring case; an
\* empty array when the log holds only the header row; an error object when
\* userEmail is missing; and it changes no stored data.
C17_GetDataReturnsTrimmedMatches ==
  GotData =>
    /\ logBook = last.pre
    /\ pinBook = last.prePins
    /\ resp.kind = "json"
    /\ ~Truthy(last.req.userEmail) =>
         resp.message = "userEmail parameter is required" /\ resp.data = <<>>
    /\ (Truthy(last.req.userEmail) /\ CanonicalLog) =>
         /\ ReturnsRows(RowsTrimmedEqualIgnoringCase)
         /\ getLastRow(last.pre[DataSheet]) = 1 => resp.data = <<>>
\* A row logged in upper case was returned to a request in lower case.
C17_OtherCaseReturned ==
  /\ GotData
  /\ CanonicalLog
  /\ last.req.userEmail = Mail
  /\ Len(resp.data) = 1
  /\ resp.data[1][emailColumns[1]] = MailUpper
\* C17 as stated: the rows returned are exactly those whose e-mail cell equals
\* u ignoring case.
C17_GetDataReturnsEqualIgnoringCase ==
  (GotData /\ Truthy(last.req.userEmail) /\ CanonicalLog) =>
    ReturnsRows(RowsEqualIgnoringCase)

\* C18: a preflight request (a POST without a body) and a plain GET are
\* answered with the CORS response with an empty body and status 204, and
\* leave the PIN store and the access log unchanged.
C18_PreflightEmpty204 ==
  (NoBodyPost \/ (last.req.body = "get" /\ last.req.action # "getData")) =>
    /\ resp.kind = "cors"
    /\ resp.message = ""
    /\ resp.code = 204
    /\ logBook = last.pre
    /\ pinBook = last.prePins

\* ------------------------------------------------------------ two requests at once
\* The last request appended its row after another request had appended one
\* since it read the log.
Raced == last.script \in UrlLoggers /\ Posted /\ last.read # last.pre
SheetOf(book) == book[getSheetByName(book, <<"S","h","e","e","t","1">>)]
\* The time the scan compares with: the client's timestamp.
ScanTime == DateParse(last.req.timestamp)

\* C12: the URL logging handlers take no lock around read-then-append: a
\* request that read the log before another request of the same URL appended
\* its row is answered from what it read, appends its own row under the
\* other's, and is not flagged although the row above it is a duplicate for
\* the scan.
C12_AnsweredFromStaleRead ==
  Raced =>
    /\ last.out.isDuplicate
         = checkDuplicate(last.out.isValidPin, lastRowsOf(SheetOf(last.read)),
                          last.req.url, ScanTime)
    /\ resp.status = (IF ~last.out.isValidPin THEN "failure"
                      ELSE IF last.out.isDuplicate THEN "duplicate" ELSE "success")
    /\ SheetOf(logBook).rows = Append(SheetOf(last.pre).rows, last.out.row)
\* Both requests of one URL were logged and answered 'success', and the scan
\* of the log as it was at the second append flags the URL.
C12_BothLoggedNotFlagged ==
  /\ Raced
  /\ last.req.url = last.prevReq.url
  /\ last.out.isValidPin /\ last.prevOut.isValidPin
  /\ resp.status = "success" /\ last.prevOut.resp.status = "success"
  /\ checkDuplicate(TRUE, lastRowsOf(SheetOf(last.pre)), last.req.url, ScanTime)
  /\ Len(SheetOf(logBook).rows) = Len(SheetOf(last.read).rows) + 2

\* ------------------------------------------------------------ the functions alone
\* The duplicate scan and the two header detections applied to sheets of
\* every shape, in place of the sheets the handlers themselves write.
MaxScanRows == 3
\* The instant of the request whose duplicates are looked for.
ScanNow == 6 * MinuteMs
\* Times of logged rows: six, five and two minutes before the request, none,
\* and a text that is no date.
ScanTimes == {Iso(0), Iso(MinuteMs), Iso(4 * MinuteMs), Empty, Ex}
ScanRowsOf == {<<u, t>> : u \in Urls, t \in ScanTimes}
ScanLogs ==
  UNION {[1..n -> ScanRowsOf] : n \in 0..MaxScanRows}
\* First cells of a PIN sheet.
HeaderCells ==
  {Str(<<"P","I","N">>), Str(<<"P","i","n","s">>), Str(<<"P","a","s","s","w","o","r","d">>), Str(<<"P","a","s","s","w","o","r","d","s">>),
   Str(<<"K","e","y">>), Str(<<"m","y"," ","k","e","y">>), Str(<<"a","u","t","h">>), Str(<<"A","u","t","h","o","r","i","t","y">>),
   Str(<<"C","o","d","e">>), Str(<<"A","c","c","e","s","s"," ","C","o","d","e","s">>), PinAb, Str(<<"1","2","3","4","5","6">>)}
HeaderSheets ==
  {[rows |-> <<<<c>>>> \o tl, name |-> <<"P","I","N","s">>] :
     c \in HeaderCells, tl \in {<<>>, <<<<PinAb>>>>, <<<<PinAb>>, <<Str(<<"z","z">>)>>>>}}

\* PIN spreadsheets of several sheets: names on the candidate lists, names
\* that match a candidate only when the case is folded, a name on one list
\* only and a name on neither; contents with a header word, without rows,
\* with one short text, with a short text over a PIN, and with the word 'Key'
\* in column B only.
MaxSheets == 2
FindNames == {<<"P","I","N","s">>, <<"P","I","N","S">>, <<"S","h","e","e","t","1">>, <<"K","e","y","s">>, <<"D","a","t","a">>}
FindContents ==
  {<< <<Str(<<"P","I","N">>)>>, <<PinAb>> >>,
   <<>>,
   << <<Str(<<"z","z">>)>> >>,
   << <<Str(<<"z","z">>)>>, <<Str(<<"1","2","3","4">>)>> >>,
   << <<Empty, Str(<<"K","e","y">>)>> >>}
FindSheets == {[rows |-> c, name |-> nm] : nm \in FindNames, c \in FindContents}
\* No two sheets of a spreadsheet have the same name, whatever the case.
FindBooks ==
  {b \in UNION {[1..n -> FindSheets] : n \in 1..MaxSheets} :
     \A i, j \in 1..Len(b) :
       i # j => toLowerCase(b[i].name) # toLowerCase(b[j].name)}

\* Timestamp cells of the access log: canonical, ISO-8601, a Date, a Unix
\* epoch number, other date text, text that is no date with and without
\* blanks around it, blanks, and nothing. A Date and an epoch number are
\* written as the instant they parse to.
MaxStampRows == 2
DateObject(n) == [s |-> <<>>, k |-> "date", n |-> n]
UnixEpoch(n) == [s |-> <<>>, k |-> "unix", n |-> n - (n % SecondMs)]
StampCells ==
  {Readable(MinuteMs), Iso(10 * SecondMs), DateObject(MinuteMs), UnixEpoch(2 * MinuteMs),
   La(0), Ex, Str(<<" ","E","x"," ">>), Blank, Empty}
StampRow(c) == <<c>> \o Tail(rowData(Request(Str(<<"u">>), Ex, Iso(0), PinAb), 0))
StampSheets ==
  {[rows |-> <<HeaderRow>> \o [i \in 1..Len(c) |-> StampRow(c[i])], name |-> <<"S","h","e","e","t","1">>] :
     c \in UNION {[1..n -> StampCells] : n \in 1..MaxStampRows}}

InitFunctions ==
  /\ script = "functions"
  /\ \/ /\ logBook \in {<< [rows |-> <<UrlLogHeader>> \o rows, name |-> <<"S","h","e","e","t","1">>] >> :
                           rows \in ScanLogs}
        /\ pinBook = LogPinBook("urlLog")
     \/ /\ logBook = Headered("urlLog")
        /\ pinBook \in {<<sh>> : sh \in HeaderSheets}
     \/ /\ logBook = Headered("urlLog")
        /\ pinBook \in FindBooks
     \/ /\ logBook \in {<<sh>> : sh \in StampSheets}
        /\ pinBook = LogPinBook("access")
  /\ left = 1
  /\ fault = "none"
  /\ resp = NoResp
  /\ last = NoLast
  /\ pending = NoPending

\* One function applied to the sheets at hand.
Apply(fn, req, isDuplicate, pinList) ==
  /\ script = "functions"
  /\ left > 0
  /\ left' = left - 1
  /\ last' = [now |-> ScanNow, req |-> req, script |-> fn, pre |-> logBook,
              prePins |-> pinBook,
              out |-> Outcome(NoResp, logBook, pinBook, TRUE, isDuplicate, pinList,
                              req.pin, <<>>),
              prevReq |-> last.req, prevOut |-> last.out, read |-> logBook]
  /\ UNCHANGED <<script, pinBook, logBook, resp, fault, pending>>
\* The duplicate check of the URL logging handlers for a valid PIN.
ApplyScan ==
  \E url \in Urls :
    Apply("scan", Request(url, Ex, Iso(ScanNow), PinAb),
          checkDuplicate(TRUE, lastRowsOf(SheetOf(logBook)), url, ScanNow), <<>>)
\* The rows the PIN list script takes for PINs.
ApplyAnalyze ==
  Apply("analyzePinSheetStructure", Request(Empty, Empty, Empty, PinAb), FALSE,
        pinList_PL(pinBook[1]))
\* The rows validatePin of the access request script takes for PINs.
ApplyValidatePin ==
  Apply("validatePin", Request(Empty, Empty, Empty, PinAb), FALSE,
        pinList_AR(pinBook[1]))

\* One function applied to the sheets at hand, out being what it returned.
Applied(fn, req, out) ==
  /\ script = "functions"
  /\ left > 0
  /\ left' = left - 1
  /\ last' = [now |-> ScanNow, req |-> req, script |-> fn, pre |-> logBook,
              prePins |-> pinBook, out |-> out,
              prevReq |-> last.req, prevOut |-> last.out, read |-> logBook]
  /\ UNCHANGED <<script, pinBook, logBook, resp, fault, pending>>
\* findPinSheet of either script on the PIN spreadsheet.
ApplyFindPinSheet ==
  \/ Applied("findPinSheet_PL", NoBody, [found |-> findPinSheet_PL(pinBook)])
  \/ Applied("findPinSheet_AR", NoBody, [found |-> findPinSheet_AR(pinBook)])
\* isPinSheet of either script on one sheet of the PIN spreadsheet.
ApplyIsPinSheet ==
  \E i \in 1..Len(pinBook) :
    \/ Applied("isPinSheet_PL", NoBody,
               [sheet |-> pinBook[i], result |-> isPinSheet_PL(pinBook[i])])
    \/ Applied("isPinSheet_AR", NoBody,
               [sheet |-> pinBook[i], result |-> isPinSheet_AR(pinBook[i])])
\* Both validators on the same PIN spreadsheet and candidate.
ApplyValidators ==
  \E pin \in PinInputs :
    Applied("validators", Request(Empty, Empty, Empty, pin),
            [validatePinFromSheet |-> validatePinFromSheet(pinBook, pin).isValid,
             validatePin |-> validatePin(pinBook, pin).isValid,
             found_AR |-> findPinSheet_AR(pinBook),
             found_PL |-> getOrCreatePinSheet(pinBook).idx])

\* detectAndFixTimestamp on one cell of column A.
ApplyDetect ==
  \E r \in 2..getLastRow(logBook[1]), now \in NowTimes :
    Applied("detectAndFixTimestamp", NoBody,
            [value |-> Cell(logBook[1], r, 1), now |-> now,
             result |-> detectAndFixTimestamp(Cell(logBook[1], r, 1), now)])
\* autoFixTimestampFormats run on the sheet and run again on what it left.
ApplyAutoFixTwice ==
  \E now \in NowTimes, later \in NowTimes :
    /\ now <= later
    /\ Applied("autoFixTimestampFormats", NoBody,
               [sheet |-> logBook[1],
                fixed |-> fixedCount(logBook[1], now),
                first |-> autoFixTimestampFormats(logBook[1], now),
                second |-> autoFixTimestampFormats(
                             autoFixTimestampFormats(logBook[1], now), later),
                fixedAgain |-> fixedCount(autoFixTimestampFormats(logBook[1], now),
                                          later)])

NextFunctions ==
  \/ ApplyScan \/ ApplyAnalyze \/ ApplyValidatePin
  \/ ApplyFindPinSheet \/ ApplyIsPinSheet \/ ApplyValidators
  \/ ApplyDetect \/ ApplyAutoFixTwice
SpecFunctions == InitFunctions /\ [][NextFunctions]_vars

\* ---- the scan
Scanned == last.script = "scan"
\* The rows the scan was given: the URL and the time text of each, oldest first.
ScanLog == lastRowsOf(SheetOf(last.pre))
Skipped(i) == ~Truthy(ScanLog[i][2]) \/ DateParse(ScanLog[i][2]) = NaN
TooOld(i) == ~Skipped(i) /\ ScanNow - DateParse(ScanLog[i][2]) > cooldownMs
SameUrl(i) == ~Skipped(i) /\ ScanLog[i][1] = last.req.url
\* Where the walk from the last row upwards stops: the lowest too old row
\* of the sheet, 0 when none is too old.
StopRow ==
  IF \E i \in 1..Len(ScanLog) : TooOld(i)
  THEN CHOOSE i \in 1..Len(ScanLog) :
         TooOld(i) /\ \A j \in 1..Len(ScanLog) : TooOld(j) => j <= i
  ELSE 0

\* C19: the duplicate scan walks the rows from the most recent to the oldest
\* and stops at the first row older than the 5 minute cooldown: the URL is
\* flagged exactly when a row of that URL with a readable time lies after
\* that row in the sheet, so a row of the URL within the cooldown that the
\* walk would reach only beyond an older row is not detected, and rows with
\* an empty or unparsable time are passed over without stopping the walk.
C19_ScanStopsAtFirstOldRow ==
  Scanned =>
    (last.out.isDuplicate <=> \E i \in (StopRow + 1)..Len(ScanLog) : SameUrl(i))
\* A row of the URL within the cooldown lay beyond an older row and was not
\* detected, and the walk had passed over a row without a readable time.
C19_HiddenBehindOldRow ==
  /\ Scanned
  /\ ~last.out.isDuplicate
  /\ StopRow > 1
  /\ \E j \in 1..(StopRow - 1) : SameUrl(j) /\ ~TooOld(j)
  /\ \E i \in (StopRow + 1)..Len(ScanLog) : Skipped(i)

\* ---- the header row
HeaderChecked == last.script \in {"analyzePinSheetStructure", "validatePin"}
HeaderWords == << <<"p","i","n">>, <<"p","i","n","s">>, <<"p","a","s","s","w","o","r","d">>, <<"c","o","d","e">>, <<"a","u","t","h">>, <<"k","e","y">> >>
FirstCell == Cell(last.prePins[1], 1, 1)
\* Row 1 was left out of the PIN list: the list is column A from row 2 on.
TreatedAsHeader ==
  last.out.pinList
    = ColumnValues(last.prePins[1], 2, 1, getLastRow(last.prePins[1]) - 1)

\* C20: row 1 of the PIN sheet is treated as a header, the PIN data starting
\* at row 2, if and only if its first cell equals or contains one of 'pin',
\* 'pins', 'password', 'code', 'auth', 'key', whatever the case of its letters.
C20_HeaderIffWord ==
  HeaderChecked =>
    (TreatedAsHeader
       <=> \E w \in Range(HeaderWords) : includes(toLowerCase(textOf(FirstCell)), w))

\* ------------------------------------------------------------ rows and statuses
\* A logger handled a JSON request, its spreadsheet opened and its sheet there.
LoggedOpen == Logged /\ fault # "logOpen"

\* C24: every POST with a parseable body whose access sheet is found adds
\* exactly one row to the access log, whatever the outcome: the rows under the
\* header are those that were there and the row of the request.
C24_ExactlyOneRowPerPost ==
  LoggedOpen =>
    /\ OneRowAppended
    /\ Len(RowsAfter(last.script, logBook)) = Len(BaseRows(last.script, last.pre)) + 1
    /\ RowsAfter(last.script, logBook)[Len(RowsAfter(last.script, logBook))]
          [UrlColumn(last.script)] = last.out.row[UrlColumn(last.script)]
\* A request answered 'duplicate' added its row.
C24_DuplicateStillLogged ==
  /\ LoggedOpen
  /\ resp.status = "duplicate"
  /\ OneRowAppended

\* The column into which each URL logging handler writes the timestamp.
TimeColumn(s) == IF s = "urlLog" THEN 3 ELSE 1
\* What a later scan reads of the row just appended: lastRows[i][0], lastRows[i][1].
ScannedOfLast == lastRowsOf(SheetOf(logBook))[Len(lastRowsOf(SheetOf(logBook)))]

\* C25: the duplicate scan reads a row's URL and timestamp from the columns
\* into which the same handler's append wrote the URL and the timestamp.
C25_ScanReadsWrittenColumns ==
  (LoggedOpen /\ last.script \in UrlLoggers /\ lastRowsOf(SheetOf(logBook)) # <<>>) =>
    /\ ScannedOfLast[1] = last.out.row[UrlColumn(last.script)]
    /\ ScannedOfLast[2] = last.out.row[TimeColumn(last.script)]

\* C26: the status written into the row and the status of the response agree:
\* 'failure' with a failed row, 'duplicate' with a duplicate row, 'success'
\* with a success row that is not the row of a duplicate.
DuplicateRow(v) == v = Str(<<"D","u","p","l","i","c","a","t","e"," ","(","V","a","l","i","d"," ","P","I","N",")">>)
SuccessRow(v) == v \in {Str(<<"S","u","c","c","e","s","s"," ","(","V","a","l","i","d"," ","P","I","N",")">>), Str(<<"V","a","l","i","d"," ","P","I","N">>)}
C26_RowStatusMatchesResponse ==
  (LoggedOpen /\ last.script \in UrlLoggers) =>
    /\ resp.status = "failure" <=> LastStatus = FailedStatus(last.script)
    /\ resp.status = "duplicate" <=> DuplicateRow(LastStatus)
    /\ resp.status = "success" <=> SuccessRow(LastStatus)

\* C28: a POST that supplies no pin is never treated as having a valid PIN:
\* no handler finds it valid, answers that the PIN is valid, or flags it a
\* duplicate.
C28_NoPinNeverValid ==
  (Posted /\ ~Truthy(last.req.pin)) =>
    /\ ~last.out.isValidPin
    /\ ~last.out.isDuplicate
    /\ ~resp.pinValid
    /\ last.script # "access" => resp.status \notin {"success", "duplicate"}

\* C29: once a POST has installed the headers in row 1, the next POST finds
\* them matching: it adds its row and nothing else, row 1 stays the one header
\* row, and the rows under it keep their place (the access request script
\* keeps all but their timestamp cell, which its repair pass owns).
PrevLogged == last.prevReq.body = "json" /\ last.prevOut.row # <<>>
KeptFrom(s) == IF s = "access" THEN 2 ELSE 1
C29_HeaderInstalledOnce ==
  (LoggedOpen /\ PrevLogged /\ last.script \in {"urlLog2", "access"}) =>
    LET before == last.pre[LogSheetIndex(last.script, last.pre)].rows
        after == RowsAfter(last.script, logBook)
    IN /\ before[1] = HeaderFor(last.script)
       /\ Len(after) = Len(before) + 1
       /\ after[1] = HeaderFor(last.script)
       /\ \A r \in 2..Len(after) : after[r] # HeaderFor(last.script)
       /\ \A r \in 2..Len(before) :
            SubSeq(after[r], KeptFrom(last.script), Len(after[r]))
              = SubSeq(before[r], KeptFrom(last.script), Len(before[r]))
\* The second POST to a sheet that was empty before the first.
C29_SecondPostAfterInstall ==
  /\ LoggedOpen /\ PrevLogged
  /\ last.script = "urlLog2"
  /\ Len(RowsAfter("urlLog2", logBook)) = 3
  /\ RowsAfter("urlLog2", logBook)[1] = HeaderFor("urlLog2")

\* ---- the search for the PIN sheet
Searched == last.script \in {"findPinSheet_PL", "findPinSheet_AR"}
NamesSearched ==
  IF last.script = "findPinSheet_PL" THEN possibleNames_PL ELSE possibleNames_AR
\* Content inspection as the searching script does it.
Passes(i) ==
  IF last.script = "findPinSheet_PL" THEN isPinSheet_PL(last.prePins[i])
  ELSE isPinSheet_AR(last.prePins[i])
Passing == {i \in 1..Len(last.prePins) : Passes(i)}
\* The place of a sheet's name on the candidate list, 0 when it is not on it.
ExactRank(i) ==
  FirstOf({j \in 1..Len(NamesSearched) : NamesSearched[j] = last.prePins[i].name})
FoldedNamed(i) ==
  \E j \in 1..Len(NamesSearched) :
    toLowerCase(NamesSearched[j]) = toLowerCase(last.prePins[i].name)
PassingExact == {i \in Passing : ExactRank(i) # 0}
PassingFolded == {i \in Passing : FoldedNamed(i)}

\* C21: findPinSheet returns null exactly when no sheet passes isPinSheet and
\* otherwise a sheet that passes it: the passing sheet whose name comes first
\* on the candidate list; when no passing sheet has a candidate name, the
\* first passing sheet whose name is a candidate in another case; when none
\* has, the first passing sheet in the order of getSheets.
C21_FindPinSheetOrder ==
  Searched =>
    /\ last.out.found = 0 <=> Passing = {}
    /\ last.out.found # 0 => last.out.found \in Passing
    /\ PassingExact # {} =>
         /\ last.out.found \in PassingExact
         /\ \A i \in PassingExact : ExactRank(last.out.found) <= ExactRank(i)
    /\ (PassingExact = {} /\ PassingFolded # {}) =>
         last.out.found = FirstOf(PassingFolded)
    /\ (PassingExact = {} /\ PassingFolded = {} /\ Passing # {}) =>
         last.out.found = FirstOf(Passing)
\* The first sheet bears a candidate name and fails the inspection: the
\* second sheet, found by its content alone, is returned.
C21_NameMatchRejected ==
  /\ last.script = "findPinSheet_PL"
  /\ Len(last.prePins) = 2
  /\ ExactRank(1) # 0 /\ ~Passes(1)
  /\ ExactRank(2) = 0 /\ ~FoldedNamed(2)
  /\ last.out.found = 2

\* ---- content inspection
Inspected == last.script \in {"isPinSheet_PL", "isPinSheet_AR"}
InspectionWords ==
  << <<"p","i","n">>, <<"p","a","s","s","w","o","r","d">>, <<"c","o","d","e">>, <<"a","u","t","h">>, <<"k","e","y">>, <<"a","c","c","e","s","s">> >>
\* (a) a cell among the first three of one of the first three rows contains a word.
WordInFirstCells(sheet) ==
  \E row \in 1..Min(3, getLastRow(sheet)) :
    \E col \in 1..Min(3, getLastColumn(sheet)) :
      \E w \in Range(InspectionWords) :
        includes(toLowerCase(textOf(Cell(sheet, row, col))), w)
\* (b) at least 60% of the non-blank values of a sample of up to 10 cells of
\* column A, taken from row 1 or from row 2, have a PIN shape.
MostlyPinShaped(sheet) ==
  \E start \in 1..Min(2, getLastRow(sheet)) :
    LET n == Min(10, getLastRow(sheet) - start + 1)
        data == ColumnValues(sheet, start, 1, n)
        nonBlank == {i \in 1..n : Len(trim(textOf(data[i]))) > 0 /\ Truthy(data[i])}
        shaped == {i \in nonBlank : data[i].k = "str" /\ PinShape(trim(data[i].s))}
    IN nonBlank # {} /\ 10 * Cardinality(shaped) >= 6 * Cardinality(nonBlank)

\* C22: isPinSheet holds for a sheet if and only if the sheet is not empty and
\* (a) one of the first three cells of one of its first three rows contains
\* 'pin', 'password', 'code', 'auth', 'key' or 'access' in any case, or (b) at
\* least 60% of the non-blank values among up to 10 sampled cells of column A
\* have a PIN shape.
C22_IsPinSheetIffWordOrShape ==
  Inspected =>
    (last.out.result <=>
       /\ getLastRow(last.out.sheet) >= 1
       /\ (WordInFirstCells(last.out.sheet) \/ MostlyPinShaped(last.out.sheet)))

\* C27: for every PIN spreadsheet and every candidate, validatePin of the
\* access request script returns true exactly when validatePinFromSheet of
\* the PIN list script returns isValid true.
C27_ValidatorsAgree ==
  last.script = "validators" =>
    (last.out.validatePin <=> last.out.validatePinFromSheet)

\* ---- the timestamp repair
Detected == last.script = "detectAndFixTimestamp"
Repaired == last.script = "autoFixTimestampFormats"
\* new Date of the value is a valid date.
Parseable(v) == DateParse(v) # NaN
\* What the cell should hold after the repair: the canonical text of its
\* instant when it parses, itself when it is canonical or does not parse.
Canonical(v) ==
  IF isReadableTimestampFormat(v) THEN v
  ELSE IF Parseable(v) THEN Readable(DateParse(v))
  ELSE v

\* C23: detectAndFixTimestamp returns a canonical value unchanged, converts a
\* parseable value to the canonical format and returns an unparsable value
\* untouched, so the repair pass never alters a timestamp cell that does not
\* parse.
C23_RepairKeepsOrConverts ==
  /\ Detected => last.out.result = Canonical(last.out.value)
  /\ Repaired =>
       \A r \in 2..getLastRow(last.out.sheet) :
         ~Parseable(Cell(last.out.sheet, r, 1)) =>
           Cell(last.out.first, r, 1) = Cell(last.out.sheet, r, 1)

\* C30: a second run of autoFixTimestampFormats on the sheet the first run
\* left, with no row added, reports zero fixed cells and leaves every
\* timestamp cell as the first run left it.
C30_SecondRepairFixesNothing ==
  Repaired =>
    /\ last.out.fixedAgain = 0
    /\ last.out.second = last.out.first

====
